---- MODULE Spec2Model ----
(***************************************************************************)
(* A model of the moleculer-db service mixin                               *)
(* (src/packages/moleculer-db/src/index.js) and of its error types         *)
(* (src/unnamed/part_000, required by index.js as "./errors").             *)
(*                                                                         *)
(* Strings that the code inspects character by character (field paths)     *)
(* are sequences of one-character strings.  A document is a function from  *)
(* its leaf paths to scalar values; a field that is absent from the        *)
(* document is absent from the function's domain.                          *)
(***************************************************************************)
EXTENDS Integers, Sequences, FiniteSets, TLC

VARIABLES
    cfg,        \* this.settings, this.schema hooks, this.broker.cacher
    store,      \* the adapter's collection: id -> stored document
    req,        \* the requests in flight: slot -> request record
    started,    \* the number of requests started so far
    san,        \* one call of sanitizeParams: its settings, its input, its result
    lst,        \* one request of the list action
    pop,        \* one operation that populates its documents
    aut,        \* one run of the field authorizer and filter on a document
    got,        \* one request of the get action
    boot        \* the started lifecycle handler and the connection attempts

vars == <<cfg, store, req, started, san, lst, pop, aut, got, boot>>

\* a part of the service that the specification at hand leaves out
Off == [pc |-> "off"]

----------------------------------------------------------------------------
(* Bounds of the model *)

\* the requests started in one behaviour
MaxOps == 3
\* the timestamps new Date().getTime() can return: 1..MaxTime
MaxTime == 1

\* the ids the adapter hands out
Ids == {1, 2}
\* the request slots of Spec: its requests run one after another
Slots == {"r1"}
Times == 1..MaxTime

----------------------------------------------------------------------------
(* Values *)

\* the string "-1": the marker of a record that is not deleted
NotDeleted == -1
\* the JavaScript value undefined (an absent property)
Undefined == -2

\* settings.idField
IdField == <<"_", "i", "d">>
\* the deletion marker's field
IsDeleted == <<"i", "s", "D", "e", "l", "e", "t", "e", "d">>
\* an ordinary payload field of the entities
NameField == <<"n", "a", "m", "e">>

\* an optional list (fields, settings.fields): null, or an array of paths
Null == [isNull |-> TRUE, list |-> <<>>]
List(l) == [isNull |-> FALSE, list |-> l]

\* a single document or null (arr = FALSE, at most one doc), or an array
One(d) == [arr |-> FALSE, docs |-> <<d>>]
NoDoc == [arr |-> FALSE, docs |-> <<>>]
Many(ds) == [arr |-> TRUE, docs |-> ds]

\* params.id: one id, or an array of ids
OneId(i) == [arr |-> FALSE, ids |-> <<i>>]
ManyIds(is) == [arr |-> TRUE, ids |-> is]

\* doc[field], undefined when the property is absent
Prop(doc, field) == IF field \in DOMAIN doc THEN doc[field] ELSE Undefined

\* Object.assign(a, b) on documents
Assign(a, b) == [p \in DOMAIN a \cup DOMAIN b |-> IF p \in DOMAIN b THEN b[p] ELSE a[p]]

Contains(list, x) == \E i \in DOMAIN list : list[i] = x

\* String.prototype.indexOf(t) !== -1
IsSubstr(t, s) == \E i \in 0..(Len(s) - Len(t)) : SubSeq(s, i + 1, i + Len(t)) = t

----------------------------------------------------------------------------
(* The error types *)

EntityNotFoundError(id) == [kind |-> "EntityNotFound", code |-> 404, id |-> id]
EntityLogicallyNotFoundError(id) == [kind |-> "EntityLogicallyNotFound", code |-> 404, id |-> id]
ValidationError == [kind |-> "ValidationError", code |-> 422, id |-> OneId(0)]
ClientError400 == [kind |-> "MoleculerClientError", code |-> 400, id |-> OneId(0)]
\* a rejection of an adapter call or of a relation's resolution, passed on unchanged
AdapterError == [kind |-> "AdapterError", code |-> 500, id |-> OneId(0)]
PopulateError == [kind |-> "PopulateError", code |-> 500, id |-> OneId(0)]
Ok == [kind |-> "ok", code |-> 200, id |-> OneId(0)]
Pending == [kind |-> "pending", code |-> 0, id |-> OneId(0)]

----------------------------------------------------------------------------
(* Field Authorizer and field filter *)

\* the dotted-path parents of f: parts.pop(); parts.join(".") for each dot of f
Parents(f) == {SubSeq(f, 1, j - 1) : j \in {k \in DOMAIN f : f[k] = "."}}

\* an authorizer that lets every requested field through
authorizeField_Unchecked(allow, f) == <<f>>

\* one round of the forEach of authorizeFields: what the field f adds to res
authorizeField(allow, f) ==
    LET nestedFields == SelectSeq(allow, LAMBDA prop : IsSubstr(f \o <<".">>, prop))
    IN  IF Contains(allow, f)
        THEN <<f>>
        ELSE (IF \E parent \in Parents(f) : Contains(allow, parent) THEN <<f>> ELSE <<>>)
             \o nestedFields

RECURSIVE authorizeEach(_, _, _)
authorizeEach(allow, fields, i) ==
    IF i > Len(fields)
    THEN <<>>
    ELSE authorizeField(allow, fields[i]) \o authorizeEach(allow, fields, i + 1)

\* authorizeFields(fields) under settings.fields = allow
authorizeFields(allow, fields) ==
    IF ~allow.isNull /\ Len(allow.list) > 0
    THEN IF ~fields.isNull /\ Len(fields.list) > 0
         THEN List(authorizeEach(allow.list, fields.list, 1))
         ELSE List(<<>>)
    ELSE fields

\* _.get(doc, n) !== undefined, and the leaves _.set(res, n, v) copies
Covers(n, leaf) ==
    \/ leaf = n
    \/ Len(leaf) > Len(n) /\ SubSeq(leaf, 1, Len(n) + 1) = n \o <<".">>

filterFields(doc, fields) ==
    IF fields.isNull
    THEN doc
    ELSE [p \in {q \in DOMAIN doc : \E i \in DOMAIN fields.list : Covers(fields.list[i], q)}
            |-> doc[p]]

\* the "Filter fields" stage of transformDocuments: params.fields if given,
\* else settings.fields, authorized and applied to every document
transformFilter(allow, paramFields, val) ==
    LET fields == IF ~paramFields.isNull THEN paramFields ELSE allow
        authFields == authorizeFields(allow, fields)
    IN  [arr |-> val.arr,
         docs |-> [i \in DOMAIN val.docs |-> filterFields(val.docs[i], authFields)]]

----------------------------------------------------------------------------
(* ID encoding *)

\* an encoder that answers nothing
encodeID_Blank(id) == Undefined

encodeID(id) == id
decodeID(id) == id

----------------------------------------------------------------------------
(* The storage adapter, at its contract *)

\* the id the adapter gives the next inserted entity
FreshId(s) == CHOOSE i \in Ids \ DOMAIN s : \A j \in Ids \ DOMAIN s : i <= j

adapterFindById(s, id) == IF id \in DOMAIN s THEN One(s[id]) ELSE NoDoc

\* the documents found, in the order of the ids asked for
adapterFindByIds(s, ids) ==
    Many([i \in 1..Cardinality({k \in DOMAIN ids : ids[k] \in DOMAIN s})
            |-> s[SelectSeq(ids, LAMBDA x : x \in DOMAIN s)[i]]])

\* the collection after insert(entity)
adapterInsert(s, entity) ==
    LET id == FreshId(s)
    IN  [i \in DOMAIN s \cup {id} |->
            IF i = id THEN Assign(entity, [p \in {IdField} |-> id]) ELSE s[i]]

RECURSIVE adapterInsertMany(_, _)
adapterInsertMany(s, entities) ==
    IF entities = <<>>
    THEN s
    ELSE adapterInsertMany(adapterInsert(s, Head(entities)), Tail(entities))

\* the collection after updateById(id, {$set: sets})
adapterUpdateById(s, id, sets) ==
    IF id \in DOMAIN s THEN [s EXCEPT ![id] = Assign(@, sets)] ELSE s

\* the collection after removeById(id)
adapterRemoveById(s, id) == [i \in DOMAIN s \ {id} |-> s[i]]

----------------------------------------------------------------------------
(* The service: settings, requests and the steps of the operation handlers. *)
(* A request runs from one pending call (a validator, an adapter call, a    *)
(* relation's resolution, cacher.clean, a lifecycle hook) to the next in    *)
(* one step.  A slot serves its next request once the caller has the       *)
(* answer of the one before.                                                *)

EmptyDoc == [p \in {} |-> 0]

\* the default settings of the pagination
DefaultPageSize == 10
DefaultMaxPageSize == 100
DefaultMaxLimit == -1

\* settings.fields: no allow-list, one without the deletion marker, one with it
AllowLists == {Null, List(<<IdField, NameField>>), List(<<IdField, NameField, IsDeleted>>)}

\* the settings and the schema a service can be built with
Configs ==
    [softDelete : BOOLEAN,      \* settings.softDelete
     cacher : BOOLEAN,          \* this.broker.cacher is attached
     hooks : BOOLEAN,           \* the schema defines entityCreated/Updated/Removed
     validator : BOOLEAN,       \* settings.entityValidator is a function
     fields : AllowLists,       \* settings.fields
     pageSize : {DefaultPageSize},
     maxPageSize : {DefaultMaxPageSize},
     maxLimit : {DefaultMaxLimit}]

\* the entities callers create: with and without a deletion marker
Entities == {(NameField :> 1) @@ (IsDeleted :> NotDeleted), (NameField :> 1)}

\* the patches callers send with update
Patches == {(NameField :> 2), (IsDeleted :> NotDeleted)}

IdleReq ==
    [op |-> "none", id |-> OneId(0), fields |-> Null, ignoreSoftDelete |-> FALSE,
     populate |-> FALSE, payload |-> NoDoc, sets |-> EmptyDoc,
     pc |-> "idle", stage |-> "none", raw |-> NoDoc, data |-> NoDoc,
     evt |-> "none", result |-> Pending, log |-> <<>>,
     loaded |-> FALSE, stored |-> Undefined]

\* the promise of the action settles: the caller gets the result or the error
Respond(q, result) ==
    [q EXCEPT !.pc = "done", !.result = result, !.log = @ \o <<"respond">>]

\* an entityChanged that never calls the lifecycle hook
invokeHook_Skipped(q) == Respond(q, Ok)

\* entityChanged, from the end of clearCache on: the lifecycle hook, if defined
invokeHook(q) ==
    IF cfg.hooks
    THEN [q EXCEPT !.pc = "hook", !.log = @ \o <<"hook">>]
    ELSE Respond(q, Ok)

\* clearCache that does not return the promise of cacher.clean: the hook is
\* invoked while the purge is still pending
clearCache_NotAwaited(q) ==
    LET b == [q EXCEPT !.log = @ \o <<"broadcast">>]
    IN  IF cfg.cacher
        THEN invokeHook([b EXCEPT !.log = @ \o <<"clean">>])
        ELSE invokeHook(b)

\* clearCache: the broadcast, then cacher.clean if a cacher is attached
clearCache(q) ==
    LET b == [q EXCEPT !.log = @ \o <<"broadcast">>]
    IN  IF cfg.cacher
        THEN [b EXCEPT !.pc = "clean", !.log = @ \o <<"clean">>]
        ELSE invokeHook(b)

\* entityChanged(type, json, ctx)
entityChanged(q, type, json) ==
    clearCache([q EXCEPT !.evt = type, !.data = json])

\* _update up to adapter.updateById(id, {"$set": sets})
callUpdateById(q, sets) ==
    [q EXCEPT !.pc = "updateById", !.stage = "write", !.sets = sets,
              !.log = @ \o <<"updateById">>]

\* data.isDeleted of what _get resolved with
isDeletedOf(json) ==
    IF json.arr \/ json.docs = <<>> THEN Undefined ELSE Prop(json.docs[1], IsDeleted)

\* the lifecycle event a write of this request is dispatched as
eventOf(q) ==
    CASE q.op \in {"create", "insert"} -> "created"
      [] q.op = "update" -> "updated"
      [] q.op = "remove" -> IF \E i \in DOMAIN q.log : q.log[i] = "removeById" THEN "removed" ELSE "updated"

\* the handlers with the soft-delete check of update left out
afterTransform_UpdateUnchecked(q, json, now) ==
    IF q.stage = "write"
    THEN entityChanged(q, eventOf(q), json)
    ELSE CASE q.op = "get" ->
                IF cfg.softDelete /\ ~q.ignoreSoftDelete /\ isDeletedOf(json) # NotDeleted
                THEN Respond(q, EntityLogicallyNotFoundError(q.id))
                ELSE Respond([q EXCEPT !.data = json], Ok)
           [] q.op = "update" -> callUpdateById(q, q.sets)
           [] q.op = "remove" ->
                IF isDeletedOf(json) # NotDeleted
                THEN Respond(q, EntityLogicallyNotFoundError(q.id))
                ELSE callUpdateById(q, (IsDeleted :> now))

\* what follows transformDocuments: the handler's soft-delete check after a
\* load, entityChanged after a write
afterTransform(q, json, now) ==
    IF q.stage = "write"
    THEN entityChanged(q, eventOf(q), json)
    ELSE CASE q.op = "get" ->
                IF cfg.softDelete /\ ~q.ignoreSoftDelete /\ isDeletedOf(json) # NotDeleted
                THEN Respond(q, EntityLogicallyNotFoundError(q.id))
                ELSE Respond([q EXCEPT !.data = json], Ok)
           [] q.op = "update" ->
                IF cfg.softDelete /\ isDeletedOf(json) # NotDeleted
                THEN Respond(q, EntityLogicallyNotFoundError(q.id))
                ELSE callUpdateById(q, q.sets)
           [] q.op = "remove" ->
                IF isDeletedOf(json) # NotDeleted
                THEN Respond(q, EntityLogicallyNotFoundError(q.id))
                ELSE callUpdateById(q, (IsDeleted :> now))

\* transformDocuments(ctx, params, docs): population is a pending call when
\* params.populate is given; _create passes {} as params
transformDocuments(q, val, now) ==
    IF q.populate /\ q.op # "create"
    THEN [q EXCEPT !.pc = "populate", !.raw = val, !.log = @ \o <<"populate">>]
    ELSE afterTransform(q,
            transformFilter(cfg.fields, IF q.op = "create" THEN Null ELSE q.fields, val),
            now)

\* validateEntity resolved: beforeSaveTransformID, then adapter.insert/insertMany
callInsert(q) ==
    [q EXCEPT !.pc = "insert", !.stage = "write",
              !.log = @ \o <<IF q.payload.arr THEN "insertMany" ELSE "insert">>]

\* validateEntity that does not wait for the validator before the insert
validateEntity_InsertFirst(q) ==
    IF cfg.validator
    THEN [callInsert(q) EXCEPT !.pc = "validate", !.log = @ \o <<"validate">>]
    ELSE callInsert(q)

\* validateEntity(entity): the validator is called only if it is a function
validateEntity(q) ==
    IF cfg.validator
    THEN [q EXCEPT !.pc = "validate", !.log = @ \o <<"validate">>]
    ELSE callInsert(q)

\* getById(id, true)
getById(q) ==
    [q EXCEPT !.pc = "find", !.stage = "load",
              !.log = @ \o <<IF q.id.arr THEN "findByIds" ELSE "findById">>]

Begin(r, q) ==
    /\ started < MaxOps
    /\ req[r].pc \in {"idle", "done"}
    /\ req' = [req EXCEPT ![r] = q]
    /\ started' = started + 1
    /\ UNCHANGED <<cfg, store, san, lst, pop, aut, got, boot>>

\* actions.create -> _create
StartCreate(r, entity) ==
    Begin(r, validateEntity([IdleReq EXCEPT !.op = "create", !.payload = One(entity)]))

\* actions.insert -> _insert
StartInsert(r, payload, populate) ==
    LET q == [IdleReq EXCEPT !.op = "insert", !.payload = payload, !.populate = populate]
    IN  Begin(r, IF payload.arr \/ payload.docs # <<>>
                 THEN validateEntity(q)
                 ELSE Respond(q, ClientError400))

\* actions.get -> _get
StartGet(r, id, fields, ignoreSoftDelete, populate) ==
    Begin(r, getById([IdleReq EXCEPT !.op = "get", !.id = id, !.fields = fields,
                         !.ignoreSoftDelete = ignoreSoftDelete, !.populate = populate]))

\* actions.update -> _get, then _update
StartUpdate(r, id, sets) ==
    Begin(r, getById([IdleReq EXCEPT !.op = "update", !.id = OneId(id), !.sets = sets]))

\* actions.remove -> _remove, or under softDelete _get, then _update
StartRemove(r, id) ==
    LET q == [IdleReq EXCEPT !.op = "remove", !.id = OneId(id)]
    IN  Begin(r, IF ~cfg.softDelete
                 THEN [q EXCEPT !.pc = "removeById", !.stage = "write",
                                !.log = @ \o <<"removeById">>]
                 ELSE getById(q))

\* the ids of S in increasing order
RECURSIVE SortedIds(_)
SortedIds(S) ==
    IF S = {}
    THEN <<>>
    ELSE LET m == CHOOSE i \in S : \A j \in S : i <= j
         IN  <<m>> \o SortedIds(S \ {m})

Step(r, q) ==
    /\ req' = [req EXCEPT ![r] = q]
    /\ UNCHANGED <<cfg, started, san, lst, pop, aut, got, boot>>

Written(q) == [q EXCEPT !.log = @ \o <<"written">>]

\* the validator promises settle (Promise.all over the entities)
ValidateDone(r, ok) ==
    /\ req[r].pc = "validate"
    /\ Step(r, IF ok THEN callInsert(req[r]) ELSE Respond(req[r], ValidationError))
    /\ UNCHANGED store

\* adapter.insert / adapter.insertMany settles
InsertDone(r, ok) ==
    LET q == req[r]
        after == adapterInsertMany(store, q.payload.docs)
        newDocs == [i \in 1..Len(q.payload.docs) |->
                        after[SortedIds(DOMAIN after \ DOMAIN store)[i]]]
    IN  /\ q.pc = "insert"
        /\ ok => Cardinality(Ids \ DOMAIN store) >= Len(q.payload.docs)
        /\ IF ok
           THEN /\ store' = after
                /\ Step(r, transformDocuments(Written(q),
                              [arr |-> q.payload.arr, docs |-> newDocs], 0))
           ELSE /\ store' = store
                /\ Step(r, Respond(q, AdapterError))

\* adapter.findById / adapter.findByIds settles: the rest of _get and of the
\* handler that called it
FindDone(r, ok, now) ==
    LET q == req[r]
        doc == IF q.id.arr
               THEN adapterFindByIds(store, [i \in DOMAIN q.id.ids |-> decodeID(q.id.ids[i])])
               ELSE adapterFindById(store, decodeID(q.id.ids[1]))
    IN  /\ q.pc = "find"
        /\ Step(r, IF ~ok THEN Respond(q, AdapterError)
                   ELSE IF doc = NoDoc THEN Respond(q, EntityNotFoundError(q.id))
                   ELSE transformDocuments(
                            [q EXCEPT !.loaded = TRUE, !.stored = isDeletedOf(doc)], doc, now))
        /\ UNCHANGED store

\* adapter.updateById settles: the rest of _update
UpdateDone(r, ok) ==
    LET q == req[r]
        id == decodeID(q.id.ids[1])
        after == adapterUpdateById(store, id, q.sets)
        doc == adapterFindById(after, id)
    IN  /\ q.pc = "updateById"
        /\ IF ok
           THEN /\ store' = after
                /\ Step(r, IF doc = NoDoc THEN Respond(q, EntityNotFoundError(OneId(id)))
                           ELSE transformDocuments(Written(q), doc, 0))
           ELSE /\ store' = store
                /\ Step(r, Respond(q, AdapterError))

\* adapter.removeById settles: the rest of _remove
RemoveDone(r, ok) ==
    LET q == req[r]
        id == decodeID(q.id.ids[1])
        doc == adapterFindById(store, id)
    IN  /\ q.pc = "removeById"
        /\ IF ok
           THEN /\ store' = adapterRemoveById(store, id)
                /\ Step(r, IF doc = NoDoc THEN Respond(q, EntityNotFoundError(q.id))
                           ELSE transformDocuments(Written(q), doc, 0))
           ELSE /\ store' = store
                /\ Step(r, Respond(q, AdapterError))

\* populateDocs settles (Promise.all over the relations' resolutions)
PopulateDone(r, ok, now) ==
    LET q == req[r]
    IN  /\ q.pc = "populate"
        /\ Step(r, IF ok
                   THEN afterTransform(q, transformFilter(cfg.fields, q.fields, q.raw), now)
                   ELSE Respond(q, PopulateError))
        /\ UNCHANGED store

\* cacher.clean settles: the .then of entityChanged runs
CleanDone(r) ==
    /\ req[r].pc = "clean"
    /\ Step(r, invokeHook([req[r] EXCEPT !.log = @ \o <<"cleaned">>]))
    /\ UNCHANGED store

\* the lifecycle hook's promise settles: .then(() => json)
HookDone(r) ==
    /\ req[r].pc = "hook"
    /\ Step(r, Respond([req[r] EXCEPT !.log = @ \o <<"hooked">>], Ok))
    /\ UNCHANGED store

\* what callers send
GetIds == {OneId(1), OneId(2), ManyIds(<<1, 2>>)}
GetFields == {Null, List(<<IdField, NameField>>)}
Payloads == {NoDoc} \cup {One(e) : e \in Entities}
              \cup {Many(<<e>>) : e \in Entities}
              \cup {Many(<<e, e>>) : e \in Entities}

Init ==
    /\ cfg \in Configs
    /\ store = [i \in {} |-> EmptyDoc]
    /\ req = [r \in Slots |-> IdleReq]
    /\ started = 0
    /\ san = Off /\ lst = Off /\ pop = Off
    /\ aut = Off /\ got = Off /\ boot = Off

Next ==
    \E r \in Slots :
        \/ \E e \in Entities : StartCreate(r, e)
        \/ \E p \in Payloads, wp \in BOOLEAN : StartInsert(r, p, wp)
        \/ \E id \in GetIds, f \in GetFields, ign \in BOOLEAN, wp \in BOOLEAN :
              StartGet(r, id, f, ign, wp)
        \/ \E id \in Ids, s \in Patches : StartUpdate(r, id, s)
        \/ \E id \in Ids : StartRemove(r, id)
        \/ \E ok \in BOOLEAN : ValidateDone(r, ok)
        \/ \E ok \in BOOLEAN : InsertDone(r, ok)
        \/ \E ok \in BOOLEAN, now \in Times : FindDone(r, ok, now)
        \/ \E ok \in BOOLEAN : UpdateDone(r, ok)
        \/ \E ok \in BOOLEAN : RemoveDone(r, ok)
        \/ \E ok \in BOOLEAN, now \in Times : PopulateDone(r, ok, now)
        \/ CleanDone(r)
        \/ HookDone(r)

Spec == Init /\ [][Next]_vars

----------------------------------------------------------------------------
(* What the requests of Spec did: their logs *)

Has(log, tok) == \E i \in DOMAIN log : log[i] = tok

\* the place of the first tok in log; 0 when it is not there
Pos(log, tok) == IF Has(log, tok) THEN CHOOSE i \in DOMAIN log : log[i] = tok /\ \A j \in 1..(i - 1) : log[j] # tok ELSE 0

Before(log, a, b) == Has(log, a) /\ Has(log, b) /\ Pos(log, a) < Pos(log, b)

Mutations == {"create", "insert", "update", "remove"}

MarkerOf(s, id) == IF id \in DOMAIN s THEN Prop(s[id], IsDeleted) ELSE Undefined

----------------------------------------------------------------------------
(* C1: in every create, insert, update and remove, the adapter write is     *)
(* applied before the broadcast, the broadcast precedes the cacher purge,   *)
(* the purge (when a cacher is attached) has settled before the lifecycle   *)
(* hook is invoked, the hook is invoked with the transformed entity under   *)
(* the event of the mutation, and a successful result is delivered only     *)
(* after the hook has settled; no hook runs before its invalidation.        *)
C1_InvalidateThenHookThenRespond ==
    \A r \in Slots :
        LET q == req[r]
            L == q.log
        IN  q.op \in Mutations =>
              /\ Has(L, "broadcast") => Before(L, "written", "broadcast")
              /\ Has(L, "clean") => cfg.cacher /\ Before(L, "broadcast", "clean")
              /\ Has(L, "hook") =>
                    /\ cfg.hooks
                    /\ Before(L, "written", "broadcast") /\ Before(L, "broadcast", "hook")
                    /\ cfg.cacher => Before(L, "clean", "cleaned") /\ Before(L, "cleaned", "hook")
                    /\ q.evt = (CASE q.op \in {"create", "insert"} -> "created"
                                  [] q.op = "update" -> "updated"
                                  [] q.op = "remove" ->
                                        IF cfg.softDelete THEN "updated" ELSE "removed")
                    /\ q.op = "update" =>
                          q.data = transformFilter(cfg.fields, q.fields,
                                      adapterFindById(store, q.id.ids[1]))
              /\ q.result = Ok =>
                    /\ Before(L, "written", "broadcast") /\ Before(L, "broadcast", "respond")
                    /\ cfg.cacher => Before(L, "cleaned", "respond")
                    /\ cfg.hooks => Before(L, "hook", "hooked") /\ Before(L, "hooked", "respond")

\* C1's case: a mutation answered after the purge and the hook
C1_Witness ==
    \E r \in Slots :
        /\ req[r].op \in Mutations /\ req[r].result = Ok
        /\ cfg.cacher /\ cfg.hooks
        /\ Has(req[r].log, "cleaned") /\ Has(req[r].log, "hooked")

----------------------------------------------------------------------------
(* C2: under softDelete, remove(id) on an existing record whose stored      *)
(* marker is "-1" never calls removeById, calls updateById with a patch     *)
(* that sets isDeleted to the timestamp, leaves the record in the store,    *)
(* and is dispatched as an update.                                          *)
C2_SoftRemoveIsUpdate ==
    \A r \in Slots :
        LET q == req[r]
        IN  (cfg.softDelete /\ q.op = "remove") =>
              /\ ~Has(q.log, "removeById")
              /\ (q.loaded /\ q.stored = NotDeleted) =>
                    /\ Has(q.log, "updateById")
                    /\ DOMAIN q.sets = {IsDeleted} /\ q.sets[IsDeleted] \in Times
                    /\ q.id.ids[1] \in DOMAIN store
              /\ Has(q.log, "written") => MarkerOf(store, q.id.ids[1]) \in Times
              /\ Has(q.log, "broadcast") => q.evt = "updated"

----------------------------------------------------------------------------
(* C3: under softDelete, a get without ignoreSoftDelete, an update or a     *)
(* remove of a single record whose stored marker is not "-1" ends with      *)
(* EntityLogicallyNotFound (a failure of another kind than EntityNotFound)  *)
(* unless a relation's resolution rejected first, and calls no adapter      *)
(* write; and no later operation changes or removes a marker that is set.   *)
C3_Rejected ==
    \A r \in Slots :
        LET q == req[r]
        IN  (/\ cfg.softDelete /\ q.loaded /\ ~q.id.arr /\ q.stored # NotDeleted
             /\ q.op \in {"update", "remove"} \/ (q.op = "get" /\ ~q.ignoreSoftDelete)) =>
              /\ q.pc \in {"populate", "done"}
              /\ q.pc = "done" =>
                    \/ q.result = EntityLogicallyNotFoundError(q.id)
                          /\ q.result.kind # EntityNotFoundError(q.id).kind
                    \/ q.result = PopulateError
              /\ ~Has(q.log, "updateById") /\ ~Has(q.log, "removeById")
              /\ ~Has(q.log, "written")

C3_MarkerStays ==
    \A id \in DOMAIN store :
        (cfg.softDelete /\ MarkerOf(store, id) # NotDeleted) =>
            id \in DOMAIN store' /\ store'[id] = store[id]

----------------------------------------------------------------------------
(* C5: get fails with EntityNotFound carrying the requested id whenever     *)
(* none of the requested ids has a record (one id, or a list of ids), and   *)
(* so do update and remove of an id that has no record.                     *)
C5_NotFound ==
    \A r \in Slots :
        LET q == req[r]
        IN  (/\ q.op \in {"get", "update", "remove"} /\ q.pc = "done"
             /\ q.result # AdapterError /\ ~Has(q.log, "written")
             /\ \A i \in DOMAIN q.id.ids : q.id.ids[i] \notin DOMAIN store) =>
              q.result = EntityNotFoundError(q.id)

----------------------------------------------------------------------------
(* C6: when the validator rejects the entity of a create or an insert (any  *)
(* one entity of a bulk insert) the request fails with the validator's      *)
(* error, neither adapter.insert nor adapter.insertMany has been called,    *)
(* and the step that rejects leaves the store as it was.                    *)
C6_NoCallAfterRejection ==
    \A r \in Slots :
        LET q == req[r]
        IN  /\ q.result = ValidationError =>
                 /\ q.op \in {"create", "insert"}
                 /\ ~Has(q.log, "insert") /\ ~Has(q.log, "insertMany")
                 /\ ~Has(q.log, "written")
            /\ (Has(q.log, "insert") \/ Has(q.log, "insertMany")) =>
                 (cfg.validator => Before(q.log, "validate", IF q.payload.arr THEN "insertMany" ELSE "insert"))

C6_StoreKept ==
    \A r \in Slots :
        (req[r].pc = "validate" /\ req'[r].result = ValidationError) => store' = store

C6_ValidationBeforeStorage == [](C6_NoCallAfterRejection) /\ [][C6_StoreKept]_vars

\* C6's case: a bulk insert of two entities that the validator rejected
C6_Witness ==
    \E r \in Slots :
        /\ req[r].result = ValidationError
        /\ req[r].payload.arr /\ Len(req[r].payload.docs) = 2

----------------------------------------------------------------------------
(* Parameter Sanitizer *)

\* the inputs of the sanitizer run over 0..MaxNum
MaxNum == 3

\* JavaScript values of the numeric parameters.  JsStr(n) is the string that
\* spells the number n, JsText a string that spells no number.
JsUndefined == [t |-> "undefined", v |-> 0]
JsNull == [t |-> "null", v |-> 0]
JsNaN == [t |-> "NaN", v |-> 0]
JsNum(n) == [t |-> "number", v |-> n]
JsStr(n) == [t |-> "string", v |-> n]
JsText == [t |-> "text", v |-> 0]

\* typeof(x) === "string"
IsString(x) == x.t \in {"string", "text"}

\* Number(x) of a string
Number(x) == IF x.t = "string" THEN JsNum(x.v) ELSE JsNaN

\* the truthiness of a value of these kinds
Truthy(x) == (x.t = "number" /\ x.v # 0) \/ (x.t = "string") \/ (x.t = "text")

\* x > n for a number n
Greater(x, n) ==
    \/ x.t = "number" /\ x.v > n
    \/ x.t = "string" /\ x.v > n
    \/ x.t = "null" /\ 0 > n

\* JavaScript values of the list parameters: undefined, a string, an array
LUndefined == [t |-> "undefined", chars |-> <<>>, items |-> <<>>]
LStr(chars) == [t |-> "string", chars |-> chars, items |-> <<>>]
LArr(items) == [t |-> "array", chars |-> <<>>, items |-> items]

\* s.replace(/,/g, " ")
ReplaceCommas(chars) == [i \in DOMAIN chars |-> IF chars[i] = "," THEN " " ELSE chars[i]]

\* s.split(" ")
RECURSIVE SplitSpaces(_)
SplitSpaces(chars) ==
    IF \A i \in DOMAIN chars : chars[i] # " "
    THEN <<chars>>
    ELSE LET k == CHOOSE i \in DOMAIN chars :
                    chars[i] = " " /\ \A j \in 1..(i - 1) : chars[j] # " "
         IN  <<SubSeq(chars, 1, k - 1)>> \o SplitSpaces(SubSeq(chars, k + 1, Len(chars)))

\* if (typeof(p.x) === "string") p.x = p.x.replace(/,/g, " ").split(" ")
SplitList(x) == IF x.t = "string" THEN LArr(SplitSpaces(ReplaceCommas(x.chars))) ELSE x

ToNumber(x) == IF IsString(x) THEN Number(x) ELSE x

\* a sanitizer that leaves the limit as resolved
clampLimit_Unclamped(settings, p) == p

\* if (this.settings.maxLimit > 0 && p.limit > this.settings.maxLimit)
\*     p.limit = this.settings.maxLimit
clampLimit(settings, p) ==
    IF settings.maxLimit > 0 /\ Greater(p.limit, settings.maxLimit)
    THEN [p EXCEPT !.limit = JsNum(settings.maxLimit)]
    ELSE p

\* sanitizeParams(ctx, params) under this.settings = settings, for the action
\* ctx.action.name = <service>.<actionName>
sanitizeParams(settings, actionName, params) ==
    LET p1 == [params EXCEPT !.limit = ToNumber(@), !.offset = ToNumber(@),
                             !.page = ToNumber(@), !.pageSize = ToNumber(@),
                             !.sort = SplitList(@), !.fields = SplitList(@),
                             !.populate = SplitList(@), !.searchFields = SplitList(@)]
        pageSize0 == IF ~Truthy(p1.pageSize) THEN JsNum(settings.pageSize) ELSE p1.pageSize
        page == IF ~Truthy(p1.page) THEN JsNum(1) ELSE p1.page
        pageSize == IF settings.maxPageSize > 0 /\ Greater(pageSize0, settings.maxPageSize)
                    THEN JsNum(settings.maxPageSize)
                    ELSE pageSize0
        p2 == IF actionName = "list"
              THEN [p1 EXCEPT !.pageSize = pageSize, !.page = page, !.limit = pageSize,
                              !.offset = JsNum((page.v - 1) * pageSize.v)]
              ELSE p1
    IN  clampLimit(settings, p2)

\* the parameters of a request that gives none
NoParams ==
    [limit |-> JsUndefined, offset |-> JsUndefined, page |-> JsUndefined,
     pageSize |-> JsUndefined, sort |-> LUndefined, fields |-> LUndefined,
     populate |-> LUndefined, searchFields |-> LUndefined]

\* the pagination settings a service can be built with
PageSettings ==
    [pageSize : 1..MaxNum, maxPageSize : -1..MaxNum, maxLimit : -1..MaxNum]

\* what callers send: numbers, strings that spell them, other strings, nothing
NumIn == {JsUndefined, JsText} \cup {JsNum(n) : n \in 0..MaxNum} \cup {JsStr(n) : n \in 0..MaxNum}
PageIn == {JsUndefined, JsText, JsNum(0), JsNum(1), JsNum(2), JsStr(2)}
LimitIn == {JsUndefined, JsStr(MaxNum)} \cup {JsNum(n) : n \in 0..MaxNum}
OffsetIn == {JsUndefined, JsNum(1)}
FieldsIn ==
    {LStr(<<"a", ",", "b">>), LStr(<<"a", " ", "b">>), LStr(<<"a", ",", " ", "b">>),
     LStr(<<"a">>), LArr(<<<<"a">>, <<"b">>>>)}

SanParams ==
    {[NoParams EXCEPT !.limit = l, !.offset = o, !.page = pg, !.pageSize = ps] :
        l \in LimitIn, o \in OffsetIn, pg \in PageIn, ps \in NumIn}
    \cup {[NoParams EXCEPT !.fields = f, !.sort = f, !.populate = g, !.searchFields = g] :
            f \in FieldsIn, g \in FieldsIn}

SanActions == {"list", "find"}

InitSan ==
    /\ san \in [pc : {"call"}, settings : PageSettings, action : SanActions,
                params : SanParams, p : {NoParams}]
    /\ cfg = Off /\ store = Off /\ req = Off /\ started = 0 /\ lst = Off /\ pop = Off
    /\ aut = Off /\ got = Off /\ boot = Off

\* an action handler calls this.sanitizeParams(ctx, ctx.params)
Sanitize ==
    /\ san.pc = "call"
    /\ san' = [san EXCEPT !.pc = "done",
                          !.p = sanitizeParams(san.settings, san.action, san.params)]
    /\ UNCHANGED <<cfg, store, req, started, lst, pop, aut, got, boot>>

NextSan == Sanitize

SpecSan == InitSan /\ [][NextSan]_vars

----------------------------------------------------------------------------
(* C10: for the list action, after sanitization limit = pageSize and        *)
(* offset = (page-1)*pageSize, for every input and every setting of         *)
(* pageSize, maxPageSize and maxLimit; an unset pageSize is the configured  *)
(* one (within maxPageSize), an unset page is 1, and pageSize is at most a  *)
(* positive maxPageSize.                                                    *)
C10_Pagination ==
    (san.pc = "done" /\ san.action = "list") =>
        /\ san.p.page.t = "number" /\ san.p.pageSize.t = "number"
        /\ san.p.limit = san.p.pageSize
        /\ san.p.offset = JsNum((san.p.page.v - 1) * san.p.pageSize.v)
        /\ san.params.page = JsUndefined => san.p.page = JsNum(1)
        /\ san.params.pageSize = JsUndefined =>
              san.p.pageSize =
                 JsNum(IF san.settings.maxPageSize > 0
                           /\ san.settings.pageSize > san.settings.maxPageSize
                       THEN san.settings.maxPageSize
                       ELSE san.settings.pageSize)
        /\ san.settings.maxPageSize > 0 => san.p.pageSize.v <= san.settings.maxPageSize

----------------------------------------------------------------------------
(* The list action: sanitizeParams, the soft-delete restriction of the      *)
(* query, then _list: adapter.find and adapter.count are called together    *)
(* and settle in either order.                                              *)

\* the records of the collection that list pages through: 1..NRec
NRec == 2

\* params.query: absent, or an object of field values to match
NoQuery == [has |-> FALSE, q |-> EmptyDoc]
Query(q) == [has |-> TRUE, q |-> q]

Matches(doc, q) == \A k \in DOMAIN q : Prop(doc, k) = q[k]

\* adapter.find(params): the matching documents in the order of their ids,
\* from params.offset on, at most params.limit of them
adapterFind(s, params) ==
    LET ids == SortedIds({i \in DOMAIN s : Matches(s[i], params.query.q)})
        skip == IF params.offset.t = "number" /\ params.offset.v > 0 THEN params.offset.v ELSE 0
        rest == SubSeq(ids, skip + 1, Len(ids))
        take == IF params.limit.t = "number" /\ params.limit.v > 0 /\ params.limit.v < Len(rest)
                THEN params.limit.v
                ELSE Len(rest)
    IN  [i \in 1..take |-> s[rest[i]]]

\* adapter.count(params)
adapterCount(s, params) == Len(adapterFind(s, params))

\* the list handler that passes the caller's query on as it is
listQuery_Unrestricted(settings, params) == params.query

\* the list handler's params.query: under softDelete, unless the caller sets
\* ignoreSoftDelete, Object.assign(params.query || {}, {isDeleted: "-1"})
listQuery(settings, params) ==
    IF settings.softDelete /\ ~params.ignoreSoftDelete
    THEN Query(Assign(params.query.q, (IsDeleted :> NotDeleted)))
    ELSE params.query

\* _list: countParams, a copy of params without limit and offset
countParamsOf(params) ==
    [params EXCEPT !.limit = IF Truthy(@) THEN JsNull ELSE @,
                   !.offset = IF Truthy(@) THEN JsNull ELSE @]

\* params.fields as transformDocuments reads it
FieldsOf(x) == IF x.t = "array" THEN List(x.items) ELSE Null

\* _list, once both calls have settled: the answer of the action
listResult(settings, params, rows, total) ==
    [kind |-> "ok",
     rows |-> transformFilter(settings.fields, FieldsOf(params.fields), Many(rows)).docs,
     total |-> total,
     page |-> params.page,
     pageSize |-> params.pageSize,
     totalPages |-> (total + params.pageSize.v - 1) \div params.pageSize.v]

ListFailed == [kind |-> "AdapterError", rows |-> <<>>, total |-> 0, page |-> JsUndefined,
               pageSize |-> JsUndefined, totalPages |-> 0]
ListPending == [ListFailed EXCEPT !.kind = "pending"]

ListConfigs ==
    [softDelete : BOOLEAN, cacher : {FALSE}, hooks : {FALSE}, validator : {FALSE},
     fields : {Null, List(<<IdField, NameField>>)},
     pageSize : {2}, maxPageSize : {-1, 1}, maxLimit : {-1, 1}]

\* a deletion marker a stored record can carry: "-1", a timestamp, none
Markers == {NotDeleted, Undefined} \cup Times

RecordOf(i, marker) ==
    LET d == (IdField :> i) @@ (NameField :> (IF i = 1 THEN 1 ELSE 2))
    IN  IF marker = Undefined THEN d ELSE d @@ (IsDeleted :> marker)

ListStores == {[i \in 1..NRec |-> RecordOf(i, mk[i])] : mk \in [1..NRec -> Markers]}

ListParams ==
    {[NoParams EXCEPT !.page = pg, !.pageSize = ps] @@
         [query |-> q, ignoreSoftDelete |-> ign] :
        pg \in {JsUndefined, JsNum(2)}, ps \in {JsUndefined, JsNum(1)},
        q \in {NoQuery, Query((NameField :> 1)), Query((IsDeleted :> 1))},
        ign \in BOOLEAN}

InitList ==
    /\ cfg \in ListConfigs
    /\ store \in ListStores
    /\ lst = [pc |-> "idle"]
    /\ req = Off /\ started = 0 /\ san = Off /\ pop = Off
    /\ aut = Off /\ got = Off /\ boot = Off

\* actions.list: the handler up to the two adapter calls of _list
ListStart(ctxParams) ==
    LET sane == sanitizeParams(cfg, "list", ctxParams)
        params == [sane EXCEPT !.query = listQuery(cfg, sane)]
    IN  /\ lst.pc = "idle"
        /\ lst' = [pc |-> "calls", ctxParams |-> ctxParams,
                   \* the caller's object: params.query is the same object
                   ctxNow |-> IF ctxParams.query.has
                              THEN [ctxParams EXCEPT !.query = params.query]
                              ELSE ctxParams,
                   params |-> params, countParams |-> countParamsOf(params),
                   findDone |-> FALSE, countDone |-> FALSE, rows |-> <<>>, total |-> 0,
                   result |-> ListPending]
        /\ UNCHANGED <<cfg, store, req, started, san, pop, aut, got, boot>>

\* the two calls have settled: transformDocuments and the answer
ListSettled(l) ==
    IF l.findDone /\ l.countDone
    THEN [l EXCEPT !.pc = "done", !.result = listResult(cfg, l.params, l.rows, l.total)]
    ELSE l

\* adapter.find(params) settles
ListFindDone(ok) ==
    /\ lst.pc = "calls" /\ ~lst.findDone
    /\ lst' = IF ok
              THEN ListSettled([lst EXCEPT !.findDone = TRUE,
                                           !.rows = adapterFind(store, lst.params)])
              ELSE [lst EXCEPT !.pc = "done", !.result = ListFailed]
    /\ UNCHANGED <<cfg, store, req, started, san, pop, aut, got, boot>>

\* adapter.count(countParams) settles
ListCountDone(ok) ==
    /\ lst.pc = "calls" /\ ~lst.countDone
    /\ lst' = IF ok
              THEN ListSettled([lst EXCEPT !.countDone = TRUE,
                                           !.total = adapterCount(store, lst.countParams)])
              ELSE [lst EXCEPT !.pc = "done", !.result = ListFailed]
    /\ UNCHANGED <<cfg, store, req, started, san, pop, aut, got, boot>>

NextList ==
    \/ \E ctxParams \in ListParams : ListStart(ctxParams)
    \/ \E ok \in BOOLEAN : ListFindDone(ok)
    \/ \E ok \in BOOLEAN : ListCountDone(ok)

SpecList == InitList /\ [][NextList]_vars

----------------------------------------------------------------------------
(* C4: under softDelete, list without ignoreSoftDelete passes to both       *)
(* adapter.find and adapter.count the caller's query with isDeleted = "-1"  *)
(* added, so no row is, and the total counts no, record whose marker is not *)
(* "-1"; with ignoreSoftDelete, or without softDelete, both get the         *)
(* caller's query unchanged.                                                *)
C4_ListExcludesDeleted ==
    lst.pc \in {"calls", "done"} =>
        LET own == lst.ctxParams.query
            sent == lst.params.query
        IN  IF cfg.softDelete /\ ~lst.ctxParams.ignoreSoftDelete
            THEN /\ sent.has
                 /\ DOMAIN sent.q = DOMAIN own.q \cup {IsDeleted}
                 /\ sent.q[IsDeleted] = NotDeleted
                 /\ \A k \in DOMAIN own.q \ {IsDeleted} : sent.q[k] = own.q[k]
                 /\ lst.countParams.query = sent
                 /\ lst.result.kind = "ok" =>
                       /\ \A i \in DOMAIN lst.result.rows :
                             MarkerOf(store, lst.result.rows[i][IdField]) = NotDeleted
                       /\ lst.result.total =
                             Cardinality({i \in DOMAIN store :
                                 /\ MarkerOf(store, i) = NotDeleted
                                 /\ \A k \in DOMAIN own.q \ {IsDeleted} :
                                       Prop(store[i], k) = own.q[k]})
            ELSE /\ sent = own
                 /\ lst.countParams.query = own

\* C4's case: a list that left a logically deleted record out of rows and total
C4_Witness ==
    /\ lst.pc = "done" /\ lst.result.kind = "ok"
    /\ cfg.softDelete /\ ~lst.ctxParams.ignoreSoftDelete
    /\ \E i \in DOMAIN store : MarkerOf(store, i) \in Times
    /\ lst.result.total < Cardinality(DOMAIN store)
    /\ lst.result.total > 0

----------------------------------------------------------------------------
(* Population Resolver.  find and remove (without softDelete) transform     *)
(* what the adapter returns; populateDocs starts one resolution per         *)
(* requested relation and the resolutions settle in any order.              *)

\* the ids of the related entities: 0..MaxRel
MaxRel == 1
RelIds == 0..MaxRel

\* null as an element of an array-valued relation field
NullId == -1

\* the values of a relation field: undefined (the property is absent), null,
\* an id, an array of ids and nulls; after population an entity or entities
RUndefined == [t |-> "undefined", v |-> <<>>]
RNull == [t |-> "null", v |-> <<>>]
RId(i) == [t |-> "id", v |-> <<i>>]
RArr(a) == [t |-> "array", v |-> a]
REntity(i) == [t |-> "entity", v |-> <<i>>]
REntities(a) == [t |-> "entities", v |-> a]

Owner == <<"o", "w", "n", "e", "r">>
Tags == <<"t", "a", "g", "s">>

\* the keys of settings.populates, in the order _.forIn visits them
RuleFields == <<Owner, Tags>>

\* doc[field]
RProp(doc, field) == IF field \in DOMAIN doc THEN doc[field] ELSE RUndefined

\* _.compact keeps the truthy values
RTruthy(x) == x.t \in {"array", "entity", "entities"} \/ (x.t = "id" /\ x.v[1] # 0)

compact(vals) == SelectSeq(vals, RTruthy)

RECURSIVE flattenDeep(_)
flattenDeep(vals) == IF Len(vals) = 0 THEN <<>> ELSE Head(vals).v \o flattenDeep(Tail(vals))

RECURSIVE uniq(_)
uniq(l) ==
    IF Len(l) = 0
    THEN <<>>
    ELSE <<Head(l)>> \o uniq(SelectSeq(Tail(l), LAMBDA x : x # Head(l)))

\* idList = _.uniq(_.flattenDeep(_.compact(arr.map(doc => doc[field]))))
idList(arr, field) == uniq(flattenDeep(compact([i \in DOMAIN arr |-> RProp(arr[i], field)])))

\* resultTransform(populatedDocs) for the relation field, populatedDocs being
\* the mapping from each id of the set to the entity of that id
resultTransform(arr, field, populatedDocs) ==
    [i \in DOMAIN arr |->
        LET id == RProp(arr[i], field)
        IN  IF id.t = "array"
            THEN Assign(arr[i],
                        (field :> REntities(SelectSeq(id.v, LAMBDA x : x \in populatedDocs))))
            ELSE IF id.t = "id" /\ id.v[1] \in populatedDocs
            THEN Assign(arr[i], (field :> REntity(id.v[1])))
            ELSE [p \in DOMAIN arr[i] \ {field} |-> arr[i][p]]]

PopCall(field, kind, ids) == [field |-> field, kind |-> kind, id |-> ids, state |-> "pending"]

\* populateDocs that starts a resolution for every configured rule
populateDocs_AllRules(settings, arr, populateFields) ==
    LET promise(field) ==
            IF settings.populates[field] = "none"
            THEN <<>>
            ELSE <<PopCall(field, settings.populates[field], idList(arr, field))>>
    IN  promise(RuleFields[1]) \o promise(RuleFields[2])

\* populateDocs up to Promise.all: the promises pushed, one after another in
\* the same turn.  A rule is "action" (a string or an object naming a remote
\* action), "handler" (a function), or "none" (no such key).
populateDocs(settings, arr, populateFields) ==
    LET promise(field) ==
            LET rule == settings.populates[field]
                ids == idList(arr, field)
            IN  IF rule = "none" \/ ~Contains(populateFields.items, field)
                THEN <<>>
                ELSE IF rule = "handler"
                THEN <<PopCall(field, "handler", ids)>>
                ELSE IF Len(ids) > 0
                THEN <<PopCall(field, "action", ids)>>
                ELSE <<>>
    IN  IF populateFields.t # "array" \/ Len(populateFields.items) = 0
        THEN <<>>
        ELSE promise(RuleFields[1]) \o promise(RuleFields[2])

PopPending == [kind |-> "pending", field |-> <<>>, docs |-> <<>>]
PopResolved(docs) == [kind |-> "ok", field |-> <<>>, docs |-> docs]
PopFailed(kind, field) == [kind |-> kind, field |-> field, docs |-> <<>>]

\* a join that waits for every promise and then resolves
promiseAll_AllSettled(calls) ==
    IF \A k \in DOMAIN calls : calls[k].state # "pending" THEN "resolved" ELSE "pending"

\* Promise.all(promises): rejected once one promise is, resolved once all are
promiseAll(calls) ==
    IF \E k \in DOMAIN calls : calls[k].state = "rejected"
    THEN "rejected"
    ELSE IF \A k \in DOMAIN calls : calls[k].state = "resolved"
    THEN "resolved"
    ELSE "pending"

\* transformDocuments after population, and the answer: find returns the
\* documents, _remove announces "removed" first (no cacher, no hook here)
popAnswer(q) ==
    [q EXCEPT !.pc = "done",
              !.evt = IF q.op = "remove" THEN "removed" ELSE "",
              !.result = PopResolved(transformFilter(cfg.fields, FieldsOf(q.params.fields),
                                                     Many(q.arr)).docs)]

\* transformDocuments from the start: populateDocs if params.populate is given
popTransform(q, docs) ==
    LET calls == IF q.params.populate.t = "array"
                 THEN populateDocs(cfg, docs, q.params.populate)
                 ELSE <<>>
        q1 == [q EXCEPT !.raw = docs, !.arr = docs, !.calls = calls]
    IN  IF promiseAll(calls) = "resolved" THEN popAnswer(q1) ELSE [q1 EXCEPT !.pc = "calls"]

Rules == {"none", "action", "handler"}

PopConfigs ==
    [softDelete : {FALSE}, cacher : {FALSE}, hooks : {FALSE}, validator : {FALSE},
     fields : {Null}, pageSize : {DefaultPageSize}, maxPageSize : {DefaultMaxPageSize},
     maxLimit : {DefaultMaxLimit},
     populates : [{Owner, Tags} -> Rules]]

\* what a stored document can hold in a relation field
RelValues ==
    {RUndefined, RNull, RArr(<<>>), RArr(<<NullId>>)} \cup {RId(i) : i \in RelIds}
        \cup {RArr(<<i, NullId>>) : i \in 1..MaxRel}

PopIds == {1, 2}

PopDoc(i, owner, tags) ==
    LET d == (IdField :> i) @@ (NameField :> i)
        o == IF owner = RUndefined THEN d ELSE d @@ (Owner :> owner)
    IN  IF tags = RUndefined THEN o ELSE o @@ (Tags :> tags)

PopStores ==
    {[i \in PopIds |-> PopDoc(i, o[i], t[i])] :
        o \in [PopIds -> RelValues], t \in [PopIds -> {RUndefined, RId(1)}]}

PopulateIn ==
    {LUndefined, LArr(<<>>), LArr(<<Owner>>), LArr(<<Tags>>), LArr(<<Owner, Tags>>)}

PopIdle ==
    [pc |-> "idle", op |-> "", id |-> 0, params |-> NoParams, raw |-> <<>>, arr |-> <<>>,
     calls |-> <<>>, evt |-> "", result |-> PopPending]

InitPop ==
    /\ cfg \in PopConfigs
    /\ store \in PopStores
    /\ pop = PopIdle
    /\ req = Off /\ started = 0 /\ san = Off /\ lst = Off
    /\ aut = Off /\ got = Off /\ boot = Off

\* actions.find and actions.remove up to the adapter call
PopStart(op, id, populate) ==
    LET ctxParams == [NoParams EXCEPT !.populate = populate] @@
                         [query |-> NoQuery, ignoreSoftDelete |-> FALSE]
    IN  /\ pop.pc = "idle"
        /\ pop' = [pop EXCEPT !.pc = "adapter", !.op = op, !.id = id,
                              !.params = sanitizeParams(cfg, op, ctxParams)]
        /\ UNCHANGED <<cfg, store, req, started, san, lst, aut, got, boot>>

\* adapter.find(params) or adapter.removeById(id) settles
PopAdapterDone(ok) ==
    LET id == decodeID(pop.id)
        doc == adapterFindById(store, id)
    IN  /\ pop.pc = "adapter"
        /\ IF ~ok
           THEN /\ pop' = [pop EXCEPT !.pc = "done", !.result = PopFailed("AdapterError", <<>>)]
                /\ UNCHANGED store
           ELSE IF pop.op = "find"
           THEN /\ pop' = popTransform(pop, adapterFind(store, pop.params))
                /\ UNCHANGED store
           ELSE /\ store' = adapterRemoveById(store, id)
                /\ pop' = IF doc = NoDoc
                          THEN [pop EXCEPT !.pc = "done",
                                           !.result = PopFailed("EntityNotFoundError", <<>>)]
                          ELSE popTransform(pop, doc.docs)
        /\ UNCHANGED <<cfg, req, started, san, lst, aut, got, boot>>

\* the resolution of one relation settles: the remote action answers with
\* the entities it has (then resultTransform), the custom handler has done
\* its own replacement, or either rejects
PopSettle(k, ok, populatedDocs) ==
    LET c == pop.calls[k]
        calls == [pop.calls EXCEPT ![k].state = IF ok THEN "resolved" ELSE "rejected"]
        q == [pop EXCEPT !.calls = calls,
                         !.arr = IF ok THEN resultTransform(@, c.field, populatedDocs) ELSE @]
    IN  /\ pop.pc \in {"calls", "done"}
        /\ k \in DOMAIN pop.calls
        /\ c.state = "pending"
        /\ populatedDocs \subseteq {c.id[j] : j \in DOMAIN c.id} \ {NullId}
        /\ ~ok => populatedDocs = {}
        /\ pop' = IF pop.pc = "done"
                  THEN q
                  ELSE IF promiseAll(calls) = "rejected"
                  THEN [q EXCEPT !.pc = "done", !.result = PopFailed("PopulateError", c.field)]
                  ELSE IF promiseAll(calls) = "resolved"
                  THEN popAnswer(q)
                  ELSE q
        /\ UNCHANGED <<cfg, store, req, started, san, lst, aut, got, boot>>

NextPop ==
    \/ \E populate \in PopulateIn : PopStart("find", 0, populate)
    \/ \E id \in PopIds \cup {3}, populate \in PopulateIn : PopStart("remove", id, populate)
    \/ \E ok \in BOOLEAN : PopAdapterDone(ok)
    \/ \E k \in 1..2, ok \in BOOLEAN, populatedDocs \in SUBSET RelIds :
          PopSettle(k, ok, populatedDocs)

SpecPop == InitPop /\ [][NextPop]_vars

\* population has run: the adapter has answered with documents
Populating ==
    /\ pop.pc \in {"calls", "done"}
    /\ pop.result.kind \notin {"AdapterError", "EntityNotFoundError"}

\* the ids that the documents hold in the field, nulls apart
Referenced(arr, field) ==
    {i \in RelIds : \E d \in DOMAIN arr :
        \/ RProp(arr[d], field) = RId(i)
        \/ RProp(arr[d], field).t = "array" /\ Contains(RProp(arr[d], field).v, i)}

CallsOf(field) == {k \in DOMAIN pop.calls : pop.calls[k].field = field}

Requested(field) == pop.params.populate.t = "array" /\ Contains(pop.params.populate.items, field)

\* the relation field of every document is as the adapter returned it
AsStored(field) == \A i \in DOMAIN pop.arr : RProp(pop.arr[i], field) = RProp(pop.raw[i], field)

----------------------------------------------------------------------------
(* C7: population is a fan-out/fan-in join.  All resolutions of a request   *)
(* are started in the one turn that starts population, none waiting for     *)
(* another; the documents are answered only once every resolution has       *)
(* resolved; the first rejection rejects the operation with that error and  *)
(* no document is answered; a record the operation removed stays removed.   *)
C7_Join ==
    pop.pc \in {"calls", "done"} =>
        /\ pop.result.kind = "ok" =>
              \A k \in DOMAIN pop.calls : pop.calls[k].state = "resolved"
        /\ (\E k \in DOMAIN pop.calls : pop.calls[k].state = "rejected") =>
              /\ pop.pc = "done"
              /\ pop.result.kind = "PopulateError"
              /\ pop.result.docs = <<>>
              /\ \E k \in DOMAIN pop.calls :
                    pop.calls[k].state = "rejected" /\ pop.calls[k].field = pop.result.field
        /\ (pop.op = "remove" /\ pop.result.kind \in {"pending", "ok", "PopulateError"}) =>
              pop.id \notin DOMAIN store

C7_StartedTogether ==
    /\ (pop.pc = "adapter" /\ pop'.pc \in {"calls", "done"}) =>
          \A k \in DOMAIN pop'.calls : pop'.calls[k].state = "pending"
    /\ pop.pc \in {"calls", "done"} =>
          /\ Len(pop'.calls) = Len(pop.calls)
          /\ pop.result.kind # "pending" => pop'.result = pop.result
          /\ \A k \in DOMAIN pop.calls :
                (pop.result.kind = "pending" /\ pop.calls[k].state = "pending"
                    /\ pop'.calls[k].state = "rejected") =>
                   pop'.result = PopFailed("PopulateError", pop.calls[k].field)

C7_FanOutFanIn == [](C7_Join) /\ [][C7_StartedTogether]_vars

\* C7's case: a remove with two relations requested, one resolved, the other
\* rejected
C7_Witness ==
    /\ pop.pc = "done" /\ pop.op = "remove"
    /\ Len(pop.calls) = 2
    /\ pop.calls[1].kind # pop.calls[2].kind
    /\ pop.calls[1].state = "resolved" /\ pop.calls[2].state = "rejected"
    /\ pop.result.kind = "PopulateError"
    /\ pop.id \notin DOMAIN store

----------------------------------------------------------------------------
(* C8: a requested relation with a remote-action rule gets at most one      *)
(* call per request; the id list of the call holds every id the documents   *)
(* reference, each once, and no null; documents that reference the same id  *)
(* receive the same entity.                                                 *)
C8_OneCallDistinctIds ==
    Populating =>
        \A k \in DOMAIN pop.calls :
            pop.calls[k].kind = "action" =>
                LET c == pop.calls[k]
                IN  /\ CallsOf(c.field) = {k}
                    /\ {c.id[j] : j \in DOMAIN c.id} = Referenced(pop.raw, c.field)
                    /\ \A i, j \in DOMAIN c.id : i # j => c.id[i] # c.id[j]
                    /\ c.state = "resolved" =>
                          \A d, e \in DOMAIN pop.arr :
                              RProp(pop.raw[d], c.field) = RProp(pop.raw[e], c.field) =>
                                 RProp(pop.arr[d], c.field) = RProp(pop.arr[e], c.field)

----------------------------------------------------------------------------
HoldsSome(arr, field) ==
    \E d \in DOMAIN arr :
        \/ RProp(arr[d], field).t = "id" /\ RProp(arr[d], field).v[1] # 0
        \/ RProp(arr[d], field).t = "array" /\ Len(RProp(arr[d], field).v) > 0

----------------------------------------------------------------------------
\* the ids of the records that match the query sent to the adapter, in order
ListMatching == SortedIds({i \in DOMAIN store : Matches(store[i], lst.params.query.q)})

\* the records of page pg when every page holds ps of the n matching records
PageOf(ids, pg, ps) ==
    SubSeq(ids, (pg - 1) * ps + 1, IF pg * ps < Len(ids) THEN pg * ps ELSE Len(ids))

(* C11: list answers {rows, total, page, pageSize, totalPages}: total is    *)
(* the number of all records that match the query, counted without limit    *)
(* and offset; rows are the records of the requested page, at most pageSize *)
(* of them; page and pageSize are the sanitized values; totalPages is       *)
(* ceil(total / pageSize).                                                  *)
C11_ListResult ==
    (lst.pc = "done" /\ lst.result.kind = "ok") =>
        LET res == lst.result
            ps == res.pageSize.v
            asked == lst.ctxParams
        IN  /\ ~Truthy(lst.countParams.limit) /\ ~Truthy(lst.countParams.offset)
            /\ res.total = Len(ListMatching)
            /\ res.page = (IF asked.page = JsUndefined THEN JsNum(1) ELSE asked.page)
            /\ res.pageSize =
                  JsNum(LET want == IF asked.pageSize = JsUndefined
                                    THEN cfg.pageSize
                                    ELSE asked.pageSize.v
                        IN  IF cfg.maxPageSize > 0 /\ want > cfg.maxPageSize
                            THEN cfg.maxPageSize
                            ELSE want)
            /\ res.totalPages * ps >= res.total
            /\ (res.totalPages - 1) * ps < res.total
            /\ Len(res.rows) <= ps
            /\ [i \in DOMAIN res.rows |-> res.rows[i][IdField]] =
                  PageOf(ListMatching, res.page.v, ps)

----------------------------------------------------------------------------
(* The Document Transformer on one document: ID encoding, then the field    *)
(* filter under the allow-list and the requested fields.                    *)

\* the longest field list of the settings and of a request
MaxFields == 2

PathA == <<"a">>
PathAB == <<"a", ".", "b">>
PathB == <<"b">>
PathCAB == <<"c", ".", "a", ".", "b">>
PathC == <<"c">>

\* the paths that allow-lists and requests name
Paths == {IdField, PathA, PathAB, PathB, PathCAB, PathC}

\* the stored document: {_id: 1, a: {b: 1}, b: 1, c: {a: {b: 1}}}
AutDoc == (IdField :> 1) @@ (PathAB :> 1) @@ (PathB :> 1) @@ (PathCAB :> 1)

SeqsUpTo(S, n) == UNION {[1..k -> S] : k \in 0..n}

\* settings.fields: null, or a list of paths (the empty one included)
AutAllowLists == {Null} \cup {List(l) : l \in SeqsUpTo(Paths, MaxFields)}

\* params.fields: not given, or a list of paths, "" among them
AutRequests == {Null} \cup {List(l) : l \in SeqsUpTo(Paths \cup {<<>>}, MaxFields)}

InitAut ==
    /\ aut \in [pc : {"call"}, allow : AutAllowLists, fields : AutRequests,
                doc : {AutDoc}, authFields : {Null}, json : {EmptyDoc}]
    /\ cfg = Off /\ store = Off /\ req = Off /\ started = 0
    /\ san = Off /\ lst = Off /\ pop = Off /\ got = Off /\ boot = Off

\* transformDocuments on the document: encodeID, authorizeFields, filterFields
Transform ==
    LET doc == [aut.doc EXCEPT ![IdField] = encodeID(@)]
        fields == IF ~aut.fields.isNull THEN aut.fields ELSE aut.allow
    IN  /\ aut.pc = "call"
        /\ aut' = [aut EXCEPT !.pc = "done",
                              !.authFields = authorizeFields(aut.allow, fields),
                              !.json = transformFilter(aut.allow, aut.fields, One(doc)).docs[1]]
        /\ UNCHANGED <<cfg, store, req, started, san, lst, pop, got, boot>>

NextAut == Transform

SpecAut == InitAut /\ [][NextAut]_vars

\* path is entry, or a dotted sub-path of entry
Under(entry, path) ==
    \/ path = entry
    \/ Len(path) > Len(entry) /\ SubSeq(path, 1, Len(entry) + 1) = entry \o <<".">>

Allowed(path) == \E i \in DOMAIN aut.allow.list : Under(aut.allow.list[i], path)

----------------------------------------------------------------------------
(* C12: with a non-empty allow-list, every path of the effective field list *)
(* is an allow-list entry or a dotted sub-path of one, every field of the   *)
(* returned entity lies under such a path, and a requested field that no    *)
(* allow-list entry covers is dropped, the transformation still answering.  *)
C12_AllowListBounds ==
    (aut.pc = "done" /\ ~aut.allow.isNull /\ Len(aut.allow.list) > 0) =>
        /\ ~aut.authFields.isNull
        /\ \A i \in DOMAIN aut.authFields.list : Allowed(aut.authFields.list[i])
        /\ \A leaf \in DOMAIN aut.json : Allowed(leaf)
        /\ \A leaf \in DOMAIN aut.json : aut.json[leaf] = aut.doc[leaf]
        /\ ~aut.fields.isNull =>
              \A i \in DOMAIN aut.fields.list :
                  ~Allowed(aut.fields.list[i]) => ~Contains(aut.authFields.list, aut.fields.list[i])

\* C12's case: a request for an allowed sub-path and for a field outside the
\* allow-list; the entity holds the first and not the second
C12_Witness ==
    /\ aut.pc = "done"
    /\ aut.allow = List(<<PathA>>)
    /\ aut.fields = List(<<PathAB, PathB>>)
    /\ aut.authFields = List(<<PathAB>>)
    /\ DOMAIN aut.json = {PathAB}

----------------------------------------------------------------------------
IdentityListed ==
    LET fields == IF ~aut.fields.isNull THEN aut.fields ELSE aut.allow
    IN  \/ fields.isNull
        \/ /\ Contains(fields.list, IdField)
           /\ aut.allow.isNull \/ Len(aut.allow.list) = 0 \/ Contains(aut.allow.list, IdField)

----------------------------------------------------------------------------
(* The started lifecycle handler: connecting() calls connect(), which calls *)
(* adapter.connect() and then the schema's afterConnected; a failure arms a *)
(* timer that calls connecting() again.  Once started, the service serves   *)
(* count requests.                                                          *)

\* the connection attempts are counted up to MaxAttempts
MaxAttempts == 3

\* setTimeout(..., 1000)
ReconnectDelay == 1000

\* schema.afterConnected: not a function, a function that returns, one that
\* throws, one that returns a promise
AfterConnected == {"none", "sync", "throws", "async"}

BootConfig ==
    [softDelete |-> FALSE, cacher |-> FALSE, hooks |-> FALSE, validator |-> FALSE,
     fields |-> Null, pageSize |-> DefaultPageSize, maxPageSize |-> DefaultMaxPageSize,
     maxLimit |-> DefaultMaxLimit]

NoCount == [pc |-> "idle", calls |-> 0, result |-> "none", total |-> 0]

InitStart ==
    /\ boot \in [pc : {"created"}, afterConnected : AfterConnected, attempts : {0},
                 inFlight : {0}, timers : {0}, delay : {0}, connected : {FALSE},
                 last : {"none"}, promise : {"pending"}, op : {NoCount}]
    /\ cfg = BootConfig
    /\ store \in ListStores
    /\ started = 0
    /\ req = Off /\ san = Off /\ lst = Off /\ pop = Off /\ aut = Off /\ got = Off

\* connecting(): this.connect() is called
connecting(b) ==
    [b EXCEPT !.pc = "connecting",
              !.attempts = IF @ < MaxAttempts THEN @ + 1 ELSE @,
              !.inFlight = @ + 1]

\* .then(resolve)
resolveStarted(b, how) ==
    [b EXCEPT !.pc = "started", !.promise = "resolved", !.inFlight = @ - 1, !.last = how]

\* a catch handler that passes the error on to the started promise
onConnectError_GiveUp(b, how) ==
    [b EXCEPT !.pc = "failed", !.promise = "rejected", !.inFlight = @ - 1, !.last = how]

\* .catch(err => { logger.error; setTimeout(() => { ...; connecting(); }, 1000) })
onConnectError(b, how) ==
    [b EXCEPT !.pc = "waiting", !.inFlight = @ - 1, !.timers = @ + 1,
              !.delay = ReconnectDelay, !.last = how]

\* started(): this.adapter is set by created(), so connecting() is called
Started ==
    /\ boot.pc = "created"
    /\ boot' = connecting(boot)
    /\ UNCHANGED <<cfg, store, req, started, san, lst, pop, aut, got>>

\* adapter.connect() settles; when it resolves, connect() calls afterConnected
ConnectSettle(ok) ==
    /\ boot.pc = "connecting"
    /\ boot' = IF ~ok
               THEN onConnectError(boot, "connectFailed")
               ELSE IF boot.afterConnected = "async"
               THEN [boot EXCEPT !.pc = "after", !.connected = TRUE, !.last = "connected"]
               ELSE resolveStarted([boot EXCEPT !.connected = TRUE], "connected")
    /\ UNCHANGED <<cfg, store, req, started, san, lst, pop, aut, got>>

\* the promise that afterConnected returned settles
AfterSettle(ok) ==
    /\ boot.pc = "after"
    /\ boot' = IF ok THEN resolveStarted(boot, "afterResolved")
                     ELSE onConnectError(boot, "afterRejected")
    /\ UNCHANGED <<cfg, store, req, started, san, lst, pop, aut, got>>

\* the timer fires: logger.warn("Reconnecting..."), connecting()
TimerFires ==
    /\ boot.pc = "waiting" /\ boot.timers > 0
    /\ boot' = connecting([boot EXCEPT !.timers = @ - 1, !.delay = 0])
    /\ UNCHANGED <<cfg, store, req, started, san, lst, pop, aut, got>>

\* actions.count up to adapter.count(params)
CountStart ==
    /\ boot.pc = "started" /\ boot.op.pc \in {"idle", "done"}
    /\ started < MaxOps
    /\ started' = started + 1
    /\ boot' = [boot EXCEPT !.op = [NoCount EXCEPT !.pc = "count", !.calls = 1]]
    /\ UNCHANGED <<cfg, store, req, san, lst, pop, aut, got>>

\* adapter.count(params) settles, and so does the action
CountSettle(ok) ==
    LET ctxParams == NoParams @@ [query |-> NoQuery, ignoreSoftDelete |-> FALSE]
        params == countParamsOf(sanitizeParams(cfg, "count", ctxParams))
    IN  /\ boot.op.pc = "count"
        /\ boot' = [boot EXCEPT !.op.pc = "done",
                                !.op.result = IF ok THEN "ok" ELSE "AdapterError",
                                !.op.total = IF ok THEN adapterCount(store, params) ELSE 0]
        /\ UNCHANGED <<cfg, store, req, started, san, lst, pop, aut, got>>

NextStart ==
    \/ Started
    \/ \E ok \in BOOLEAN : ConnectSettle(ok)
    \/ \E ok \in BOOLEAN : AfterSettle(ok)
    \/ TimerFires
    \/ CountStart
    \/ \E ok \in BOOLEAN : CountSettle(ok)

SpecStart == InitStart /\ [][NextStart]_vars

\* started() is called, timers fire, and pending promises settle
SpecStartFair ==
    /\ SpecStart
    /\ WF_vars(Started)
    /\ WF_vars(TimerFires)
    /\ WF_vars(\E ok \in BOOLEAN : ConnectSettle(ok))
    /\ WF_vars(\E ok \in BOOLEAN : AfterSettle(ok))

----------------------------------------------------------------------------
(* C14 as stated, its liveness: once adapter.connect has succeeded, startup *)
(* completes.                                                               *)
C14_ConnectedThenStarted == boot.connected ~> (boot.promise = "resolved")

C14_Safe ==
    /\ boot.promise # "rejected"
    /\ boot.inFlight <= 1
    /\ boot.timers <= 1
    /\ boot.timers > 0 => boot.inFlight = 0 /\ boot.delay = ReconnectDelay
    /\ boot.last \in {"connectFailed", "afterRejected"} =>
          /\ boot.promise = "pending"
          /\ boot.timers + boot.inFlight = 1
    /\ (boot.last = "afterResolved"
            \/ (boot.last = "connected" /\ boot.afterConnected # "async")) =>
          boot.promise = "resolved"
    /\ boot.promise = "resolved" => boot.connected
    /\ boot.op.calls <= 1
    /\ boot.op.result = "AdapterError" => boot.op.pc = "done" /\ boot.op.calls = 1

(* C14: a failed attempt (adapter.connect rejected, or the promise of       *)
(* afterConnected rejected) is followed, after a timer of 1000 ms, by the   *)
(* next attempt, without end and with at most one attempt in progress; the  *)
(* started promise never rejects and resolves in the attempt whose          *)
(* adapter.connect resolves and whose afterConnected, if it returns a       *)
(* promise, resolves; a failed count is answered after one adapter call.    *)
C14_RetryUntilStarted ==
    /\ [](C14_Safe)
    /\ (boot.pc = "waiting") ~> (boot.pc = "connecting")
    /\ (boot.connected /\ boot.afterConnected # "async") ~> (boot.promise = "resolved")

\* C14's case: startup completed in a retry, after failed attempts
C14_Witness ==
    /\ boot.pc = "started"
    /\ boot.attempts = MaxAttempts
    /\ boot.last = "afterResolved"
    /\ boot.op.result = "AdapterError"

----------------------------------------------------------------------------
\* the limit before the clamp: for list the sanitized pageSize, else the
\* caller's limit as a number
ResolvedLimit ==
    IF san.action = "list" THEN san.p.pageSize ELSE ToNumber(san.params.limit)

(* C15: in every action that sanitizes its parameters, a resolved limit     *)
(* above a positive maxLimit becomes maxLimit, so the sanitized limit never *)
(* exceeds a positive maxLimit; otherwise the limit stays as resolved.      *)
C15_LimitClamped ==
    san.pc = "done" =>
        /\ IF san.settings.maxLimit > 0 /\ ResolvedLimit.t = "number"
                /\ ResolvedLimit.v > san.settings.maxLimit
           THEN san.p.limit = JsNum(san.settings.maxLimit)
           ELSE san.p.limit = ResolvedLimit
        /\ (san.settings.maxLimit > 0 /\ san.p.limit.t = "number") =>
              san.p.limit.v <= san.settings.maxLimit

\* C15's case: find with the limit "3" under maxLimit = 2
C15_Witness ==
    /\ san.pc = "done" /\ san.action = "find"
    /\ san.settings.maxLimit = 2
    /\ san.params.limit = JsStr(3)
    /\ san.p.limit = JsNum(2)

----------------------------------------------------------------------------
\* the items of a string that separates them by commas and spaces
RECURSIVE Items(_)
Items(chars) ==
    LET isSep(c) == c \in {",", " "}
    IN  IF Len(chars) = 0
        THEN <<>>
        ELSE IF isSep(Head(chars))
        THEN Items(Tail(chars))
        ELSE LET n == CHOOSE k \in 1..Len(chars) :
                        /\ \A j \in 1..k : ~isSep(chars[j])
                        /\ k = Len(chars) \/ isSep(chars[k + 1])
             IN  <<SubSeq(chars, 1, n)>> \o Items(SubSeq(chars, n + 1, Len(chars)))

\* the already-typed equivalent of a parameter given as a string
TypedNumber(x) == IF x.t = "string" THEN JsNum(x.v) ELSE x
TypedList(x) == IF x.t = "string" THEN LArr(Items(x.chars)) ELSE x

TypedParams(params) ==
    [params EXCEPT !.limit = TypedNumber(@), !.offset = TypedNumber(@),
                   !.page = TypedNumber(@), !.pageSize = TypedNumber(@),
                   !.sort = TypedList(@), !.fields = TypedList(@),
                   !.populate = TypedList(@), !.searchFields = TypedList(@)]

(* C17: sanitizeParams gives for string-valued input what it gives for the  *)
(* typed equivalent: the number for a numeric string, and for a string of   *)
(* items separated by commas and/or spaces the list of those items.         *)
C17_StringsAsTyped ==
    (san.pc = "done"
        /\ \A k \in {"limit", "offset", "page", "pageSize"} : san.params[k] # JsText) =>
        san.p = sanitizeParams(san.settings, san.action, TypedParams(san.params))

----------------------------------------------------------------------------
(* The get action: sanitizeParams, _get (getById, transformDocuments, the   *)
(* mapping of a list) and the soft-delete check of the handler.             *)

GotConfigs ==
    [softDelete : BOOLEAN, cacher : {FALSE}, hooks : {FALSE}, validator : {FALSE},
     fields : AllowLists \cup {List(<<NameField>>)},
     pageSize : {DefaultPageSize}, maxPageSize : {DefaultMaxPageSize},
     maxLimit : {DefaultMaxLimit}]

\* params.id: an id that exists, one that does not, lists of ids
GotIds ==
    {OneId(1), OneId(NRec + 1), ManyIds(<<1, NRec>>), ManyIds(<<NRec, 1>>),
     ManyIds(<<1, NRec + 1>>), ManyIds(<<NRec + 1>>), ManyIds(<<1, 1>>)}

NoAnswer == [kind |-> "pending", shape |-> "none", docs |-> <<>>, map |-> <<>>]
GotFailed(kind) == [NoAnswer EXCEPT !.kind = kind]

\* a mapping keyed by the position of the document in the list
mappingOf_ByIndex(origDoc, json) == [i \in DOMAIN json |-> json[i]]

\* json.forEach((doc, i) => { res[origDoc[i][idField]] = doc; })
mappingOf(origDoc, json) ==
    [id \in {origDoc[i][IdField] : i \in DOMAIN origDoc} |->
        json[CHOOSE i \in DOMAIN origDoc :
                /\ origDoc[i][IdField] = id
                /\ \A j \in DOMAIN origDoc : origDoc[j][IdField] = id => j <= i]]

\* the second .then of _get: the list as a mapping if params.mapping === true
getAnswer(origDoc, json, mapping) ==
    IF json.arr /\ mapping
    THEN [kind |-> "ok", shape |-> "mapping", docs |-> <<>>,
          map |-> mappingOf(origDoc.docs, json.docs)]
    ELSE [kind |-> "ok", shape |-> IF json.arr THEN "list" ELSE "entity",
          docs |-> json.docs, map |-> <<>>]

\* data.isDeleted of what _get resolved with
isDeletedOfAnswer(data) ==
    IF data.shape = "entity" THEN Prop(data.docs[1], IsDeleted) ELSE Undefined

InitGot ==
    /\ cfg \in GotConfigs
    /\ store \in ListStores
    /\ got = [pc |-> "idle", id |-> OneId(0), mapping |-> FALSE, fields |-> LUndefined,
              ignoreSoftDelete |-> FALSE, origDoc |-> NoDoc, result |-> NoAnswer]
    /\ req = Off /\ started = 0 /\ san = Off /\ lst = Off /\ pop = Off
    /\ aut = Off /\ boot = Off

\* actions.get up to the adapter call of getById(id, true)
GotStart(id, mapping, fields, ignoreSoftDelete) ==
    LET ctxParams == [NoParams EXCEPT !.fields = fields]
        params == sanitizeParams(cfg, "get", ctxParams)
    IN  /\ got.pc = "idle"
        /\ got' = [got EXCEPT !.pc = "find", !.id = id, !.mapping = mapping,
                              !.fields = params.fields,
                              !.ignoreSoftDelete = ignoreSoftDelete]
        /\ UNCHANGED <<cfg, store, req, started, san, lst, pop, aut, boot>>

\* adapter.findById / findByIds settles: the rest of _get and of the handler
GotFound(ok) ==
    LET doc == IF got.id.arr
               THEN adapterFindByIds(store, [i \in DOMAIN got.id.ids |-> decodeID(got.id.ids[i])])
               ELSE adapterFindById(store, decodeID(got.id.ids[1]))
        enc == [doc EXCEPT !.docs = [i \in DOMAIN @ |->
                                        [@[i] EXCEPT ![IdField] = encodeID(@)]]]
        json == transformFilter(cfg.fields, FieldsOf(got.fields), enc)
        data == getAnswer(doc, json, got.mapping)
    IN  /\ got.pc = "find"
        /\ got' = [got EXCEPT
                     !.pc = "done",
                     !.origDoc = doc,
                     !.result =
                        IF ~ok
                        THEN GotFailed("AdapterError")
                        ELSE IF doc = NoDoc
                        THEN GotFailed("EntityNotFoundError")
                        ELSE IF cfg.softDelete /\ ~got.ignoreSoftDelete
                                /\ isDeletedOfAnswer(data) # NotDeleted
                        THEN GotFailed("EntityLogicallyNotFoundError")
                        ELSE data]
        /\ UNCHANGED <<cfg, store, req, started, san, lst, pop, aut, boot>>

NextGot ==
    \/ \E id \in GotIds, mapping \in BOOLEAN, ignoreSoftDelete \in BOOLEAN,
          fields \in {LUndefined, LStr(NameField), LArr(<<IdField>>)} :
          GotStart(id, mapping, fields, ignoreSoftDelete)
    \/ \E ok \in BOOLEAN : GotFound(ok)

SpecGot == InitGot /\ [][NextGot]_vars

\* the entity the transformer makes of the stored record id
EntityOf(id) == transformFilter(cfg.fields, FieldsOf(got.fields), One(store[id])).docs[1]

\* the requested ids that are stored, in the order of the request
FoundIds == SelectSeq(got.id.ids, LAMBDA i : i \in DOMAIN store)

----------------------------------------------------------------------------
(* C16: get of a list of ids with mapping = true answers a mapping whose    *)
(* keys are the ids of the found documents and whose value at an id is the  *)
(* transformed entity of the record of that id; a list without mapping      *)
(* answers the list of entities, a single id the entity.                    *)
C16_MappingById ==
    (got.pc = "done" /\ got.result.kind = "ok") =>
        IF got.id.arr /\ got.mapping
        THEN /\ got.result.shape = "mapping"
             /\ DOMAIN got.result.map = {FoundIds[i] : i \in DOMAIN FoundIds}
             /\ \A id \in DOMAIN got.result.map : got.result.map[id] = EntityOf(id)
        ELSE IF got.id.arr
        THEN /\ got.result.shape = "list"
             /\ got.result.docs = [i \in DOMAIN FoundIds |-> EntityOf(FoundIds[i])]
        ELSE /\ got.result.shape = "entity"
             /\ got.result.docs = <<EntityOf(got.id.ids[1])>>

\* C16's case: the ids asked in another order than stored, the identity
\* field filtered out of the entities
C16_Witness ==
    /\ got.pc = "done" /\ got.result.kind = "ok"
    /\ got.id = ManyIds(<<NRec, 1>>) /\ got.mapping
    /\ cfg.fields = List(<<NameField>>)
    /\ DOMAIN got.result.map = {1, NRec}
    /\ got.result.map[1] = (NameField :> 1)

----------------------------------------------------------------------------
(* Two requests on one record that interleave at their adapter calls: the   *)
(* handlers of remove and update under softDelete, each a load (_get)       *)
(* followed by a write (_update), run in two request slots.                 *)

RaceSlots == {"r1", "r2"}
\* the record both requests are about
RaceId == 1

\* a softDelete service with one stored record that is not deleted
InitRace ==
    /\ cfg \in {c \in Configs : c.softDelete /\ ~c.validator /\ c.fields = Null}
    /\ store = adapterInsertMany([i \in {} |-> EmptyDoc],
                                 <<(NameField :> 1) @@ (IsDeleted :> NotDeleted)>>)
    /\ req = [r \in RaceSlots |-> IdleReq]
    /\ started = 0
    /\ san = Off /\ lst = Off /\ pop = Off
    /\ aut = Off /\ got = Off /\ boot = Off

NextRace ==
    \E r \in RaceSlots :
        \/ StartRemove(r, RaceId)
        \/ \E s \in Patches : StartUpdate(r, RaceId, s)
        \/ \E ok \in BOOLEAN, now \in Times : FindDone(r, ok, now)
        \/ \E ok \in BOOLEAN : UpdateDone(r, ok)
        \/ CleanDone(r)
        \/ HookDone(r)

SpecRace == InitRace /\ [][NextRace]_vars

\* the removes whose write of the deletion marker has been applied
MarkerWrites == {r \in RaceSlots : req[r].op = "remove" /\ Has(req[r].log, "written")}
\* the removes of the current round that have succeeded
RemovesDone == {r \in RaceSlots : /\ req[r].op = "remove" /\ req[r].pc = "done"
                                  /\ req[r].result = Ok}
\* this step applies the adapter write of request r
WriteApplied(r) == Has(req'[r].log, "written") /\ ~Has(req[r].log, "written")

(* C18: under softDelete, of the requests on one non-deleted record that    *)
(* are in progress together, at most one remove succeeds and writes the     *)
(* deletion marker, and no adapter write is applied to the record once its  *)
(* marker is set.                                                           *)
C18_LoadThenWriteNotSplit ==
    /\ [](Cardinality(MarkerWrites) <= 1 /\ Cardinality(RemovesDone) <= 1)
    /\ [][\A r \in RaceSlots : WriteApplied(r) => MarkerOf(store, RaceId) = NotDeleted]_vars

----------------------------------------------------------------------------
\* how often tok is in log
Count(log, tok) == Cardinality({i \in DOMAIN log : log[i] = tok})

----------------------------------------------------------------------------
(* C20: under softDelete, get, update and remove of existing records whose  *)
(* stored marker is "-1" are not rejected with EntityLogicallyNotFound,     *)
(* whatever the requested fields and the allow-list, and whether the id is  *)
(* a single value or a list.                                                *)
C20_MarkerDecides ==
    \A r \in Slots :
        LET q == req[r]
        IN  (/\ cfg.softDelete /\ q.pc = "done"
             /\ q.op \in {"get", "update", "remove"}
             /\ \A i \in DOMAIN q.id.ids : MarkerOf(store, q.id.ids[i]) = NotDeleted) =>
              q.result.kind # "EntityLogicallyNotFound"

----------------------------------------------------------------------------
\* the ids of the rows list answers with for page pg, with the query, the
\* sort and the pageSize of the request in progress, against the same store
RowsOfPage(pg) ==
    LET asked == [lst.ctxParams EXCEPT !.page = JsNum(pg)]
        sane == sanitizeParams(cfg, "list", asked)
        params == [sane EXCEPT !.query = listQuery(cfg, sane)]
        rows == adapterFind(store, params)
    IN  IF pg = lst.result.page.v
        THEN [i \in DOMAIN lst.result.rows |-> lst.result.rows[i][IdField]]
        ELSE [i \in DOMAIN rows |-> rows[i][IdField]]

\* the rows of the pages 1..n, one page after the other
RECURSIVE PagesUpTo(_)
PagesUpTo(n) == IF n = 0 THEN <<>> ELSE PagesUpTo(n - 1) \o RowsOfPage(n)

(* C21: against an unchanged store, the rows of list for the pages          *)
(* 1..totalPages of one query and pageSize are together the matching        *)
(* records, each exactly once and in order, and every page but the last     *)
(* holds pageSize rows, whatever pageSize, maxPageSize and maxLimit are.    *)
C21_PagesCoverOnce ==
    (lst.pc = "done" /\ lst.result.kind = "ok") =>
        LET res == lst.result
        IN  /\ PagesUpTo(res.totalPages) = ListMatching
            /\ \A pg \in 1..(res.totalPages - 1) : Len(RowsOfPage(pg)) = res.pageSize.v

----------------------------------------------------------------------------
\* prop is a strict sub-path of f: it starts with f followed by a dot
StrictSubPath(f, prop) == Under(f, prop) /\ prop # f

(* C22: with a non-empty allow-list, a requested field that is neither an   *)
(* allow-list entry nor under an allow-listed parent brings in every        *)
(* allow-list entry that is a strict sub-path of it, and the effective list *)
(* holds nothing but requested fields the allow-list covers and strict      *)
(* sub-paths of requested fields: an entry that only contains the requested *)
(* name further inside its path is not substituted in.                      *)
C22_OnlyStrictSubPaths ==
    (/\ aut.pc = "done"
     /\ ~aut.allow.isNull /\ Len(aut.allow.list) > 0
     /\ ~aut.fields.isNull /\ Len(aut.fields.list) > 0) =>
        LET allow == aut.allow.list
            asked == aut.fields.list
            res == aut.authFields.list
        IN  /\ \A i \in DOMAIN asked : \A j \in DOMAIN allow :
                  (~Allowed(asked[i]) /\ StrictSubPath(asked[i], allow[j])) =>
                      Contains(res, allow[j])
            /\ \A k \in DOMAIN res :
                  \E i \in DOMAIN asked :
                      \/ res[k] = asked[i] /\ Allowed(asked[i])
                      \/ Contains(allow, res[k]) /\ StrictSubPath(asked[i], res[k])

----------------------------------------------------------------------------
(* C23: list leaves the caller's parameters as they were sent, the query    *)
(* object included: under softDelete the isDeleted = "-1" restriction goes  *)
(* to the handler's own copy; and unsetting limit and offset for the count  *)
(* leaves the limit and offset of the row fetch as sanitizeParams set them. *)
C23_CallerParamsUnchanged ==
    lst.pc \in {"calls", "done"} =>
        LET sane == sanitizeParams(cfg, "list", lst.ctxParams)
        IN  /\ lst.ctxNow = lst.ctxParams
            /\ lst.params.limit = sane.limit
            /\ lst.params.offset = sane.offset

====
